---- MODULE Spec2Model ----
(***************************************************************************)
(* A model of the axum-rest authentication core: the Credential Hasher,    *)
(* the Token Service (helpers/auth.rs), the Authentication Gate            *)
(* (helpers/middleware.rs) and the account handlers that use them          *)
(* (handlers/auth_handlers.rs over db/repositories/user_repo.rs).          *)
(*                                                                         *)
(* Time is in seconds, as in the exp/iat claims.  Strings the code only    *)
(* compares or parses are records that keep what the parse looks at.       *)
(***************************************************************************)
EXTENDS Integers, Sequences, FiniteSets, TLC

\* ------------------------------------------------------------------ bounds
\* Number of Uuid::new_v4() identities the store ever hands out.
MaxUsers == 1
\* Number of tokens the Token Service issues in one behaviour.
MaxIssued == 3
\* The clock is followed second by second up to here, between calls and
\* between the Utc::now() reads of one call; beyond, it is followed only to
\* the instants around a token's expiry.
MaxTick == 1
\* Number of distinct bcrypt salts.
MaxSalt == 1

\* ------------------------------------------------------- program constants
AccessTokenSecs == 24 * 3600
RefreshTokenSecs == 7 * 24 * 3600
EmailTokenSecs == 15 * 60
\* jsonwebtoken's Validation::default() allows this much clock skew on exp.
Leeway == 60
AccessCookieMaxAge == 24 * 3600
RefreshCookieMaxAge == 7 * 24 * 3600

BASE_URL == "localhost"
Roles == {"USER", "ADMIN"}
Secrets == {"AUTH_SECRET"}
ForeignSecret == "another-secret"

VARIABLES
    now,         \* the wall clock, Utc::now().timestamp()
    JWT_SECRET,  \* the lazy_static signing secret
    users,       \* the users table: id -> row, or NoRow
    nextId,      \* number of ids drawn so far
    posts,       \* the posts table: id -> row
    issued,      \* tokens handed out so far, with the operation that made them
    req,         \* the last request
    resp         \* the response to it, and what the request reached

vars == <<now, JWT_SECRET, users, posts, nextId, issued, req, resp>>

UserIds == 1..MaxUsers

\* ----------------------------------------------------------------- strings
\* Uuid::to_string and Uuid::parse_str: a string either is the hyphenated
\* form of some id or is not a UUID at all.
UuidToString(id) == [hyphenated |-> TRUE, id |-> id]
NotAUuid == [hyphenated |-> FALSE, id |-> 0]
Uuid_parse_str(s) == [ok |-> s.hyphenated, id |-> s.id]

\* ------------------------------------------------------------------ tokens
Claims(sub, role, iat, exp) ==
    [iss |-> BASE_URL, sub |-> sub, role |-> role, iat |-> iat, exp |-> exp]

NoClaims == Claims(NotAUuid, "USER", 0, 0)

\* HS256 as an ideal MAC: the tag determines the key and the message.
HS256(key, claims) == [key |-> key, msg |-> claims]

\* jsonwebtoken::encode
encode(claims, key) == [wf |-> TRUE, claims |-> claims, sig |-> HS256(key, claims)]

\* A string that is not three base64 segments.
Garbage == [wf |-> FALSE, claims |-> NoClaims, sig |-> HS256("", NoClaims)]

\* decode with validate_exp switched off: a token never lapses.
decode_without_exp(token, key, t) ==
    IF ~token.wf THEN [ok |-> FALSE, err |-> "InvalidToken", claims |-> NoClaims]
    ELSE IF token.sig # HS256(key, token.claims)
        THEN [ok |-> FALSE, err |-> "InvalidSignature", claims |-> NoClaims]
    ELSE [ok |-> TRUE, err |-> "", claims |-> token.claims]

\* decode that does not verify the signature, as jsonwebtoken does under
\* insecure_disable_signature_validation().
decode_without_signature(token, key, t) ==
    IF ~token.wf THEN [ok |-> FALSE, err |-> "InvalidToken", claims |-> NoClaims]
    ELSE IF token.claims.exp < t - Leeway
        THEN [ok |-> FALSE, err |-> "ExpiredSignature", claims |-> NoClaims]
    ELSE [ok |-> TRUE, err |-> "", claims |-> token.claims]

\* jsonwebtoken::decode under Validation::default(): structure, signature,
\* then exp against the clock with the default leeway.
decode(token, key, t) ==
    IF ~token.wf THEN [ok |-> FALSE, err |-> "InvalidToken", claims |-> NoClaims]
    ELSE IF token.sig # HS256(key, token.claims)
        THEN [ok |-> FALSE, err |-> "InvalidSignature", claims |-> NoClaims]
    ELSE IF token.claims.exp < t - Leeway
        THEN [ok |-> FALSE, err |-> "ExpiredSignature", claims |-> NoClaims]
    ELSE [ok |-> TRUE, err |-> "", claims |-> token.claims]

validate_token(token, key, t) == decode(token, key, t)

\* extract_user_id_from_token reading the subject off the payload without
\* validate_token, as jsonwebtoken's insecure decode would.
extract_user_id_unvalidated(token, key, t) ==
    LET p == Uuid_parse_str(token.claims.sub)
    IN IF ~token.wf THEN [ok |-> FALSE, err |-> "InvalidToken", id |-> 0]
       ELSE IF ~p.ok THEN [ok |-> FALSE, err |-> "InvalidUuid", id |-> 0]
       ELSE [ok |-> TRUE, err |-> "", id |-> p.id]

extract_user_id_from_token(token, key, t) ==
    LET v == validate_token(token, key, t)
        p == Uuid_parse_str(v.claims.sub)
    IN IF ~v.ok THEN [ok |-> FALSE, err |-> v.err, id |-> 0]
       ELSE IF ~p.ok THEN [ok |-> FALSE, err |-> "InvalidUuid", id |-> 0]
       ELSE [ok |-> TRUE, err |-> "", id |-> p.id]

\* extract_user_role_from_token that answers Role::default() for every
\* valid token.
extract_user_role_default(token, key, t) ==
    LET v == validate_token(token, key, t)
    IN [ok |-> v.ok, err |-> v.err, role |-> "USER"]

extract_user_role_from_token(token, key, t) ==
    LET v == validate_token(token, key, t)
    IN [ok |-> v.ok, err |-> v.err, role |-> v.claims.role]

\* generate_token reads the clock four times: t1 for the access token's exp,
\* t2 for its iat, t3 for the refresh token's exp, t4 for its iat.
generate_token(user_id, role, key, t1, t2, t3, t4) ==
    [auth_token |->
        encode(Claims(UuidToString(user_id), role, t2, t1 + AccessTokenSecs), key),
     refresh_token |->
        encode(Claims(UuidToString(user_id), role, t4, t3 + RefreshTokenSecs), key)]

\* generate_email_verification_token with the access token's Duration::hours(24)
\* left in place of Duration::minutes(15).
generate_email_verification_token_hours(user_id, key, t1, t2) ==
    encode(Claims(UuidToString(user_id), "USER", t2, t1 + AccessTokenSecs), key)

\* generate_email_verification_token reads the clock twice: t1 for exp, t2 for iat.
generate_email_verification_token(user_id, key, t1, t2) ==
    encode(Claims(UuidToString(user_id), "USER", t2, t1 + EmailTokenSecs), key)

\* The n Utc::now() reads of one call that starts at t: each no earlier than
\* the one before; the second may change once between them.
ClockReads(t, n) ==
    {s \in [1..n -> t..(IF t < MaxTick THEN t + 1 ELSE t)] :
        /\ s[1] = t
        /\ \A i \in 1..(n - 1) : s[i] <= s[i + 1]}

\* ---------------------------------------------------------------- requests
\* A Cookie header: whether it is there, whether HeaderValue::to_str reads it
\* (visible ASCII only), and its `;`-separated, trimmed name=value parts.
CookieHeader(ascii, parts) == [present |-> TRUE, ascii |-> ascii, parts |-> parts]
NoCookie == [present |-> FALSE, ascii |-> TRUE, parts |-> <<>>]
Part(name, value) == [name |-> name, value |-> value]

\* An Authorization header: its scheme prefix ("Bearer " is the only one the
\* gate takes) and the rest of the value.
AuthorizationHeader(ascii, scheme, value) ==
    [present |-> TRUE, ascii |-> ascii, scheme |-> scheme, value |-> value]
NoAuthorization == [present |-> FALSE, ascii |-> TRUE, scheme |-> "", value |-> Garbage]

Request(cookie, authorization) == [cookie |-> cookie, authorization |-> authorization]

Some(v) == [some |-> TRUE, val |-> v]
None == [some |-> FALSE, val |-> Garbage]

\* The cookie loop: the first part that starts with "auth_token=".
cookie_token(cookie) ==
    IF cookie.present /\ cookie.ascii
          /\ \E i \in 1..Len(cookie.parts) : cookie.parts[i].name = "auth_token"
    THEN LET first == CHOOSE i \in 1..Len(cookie.parts) :
                        /\ cookie.parts[i].name = "auth_token"
                        /\ \A j \in 1..(i - 1) : cookie.parts[j].name # "auth_token"
         IN Some(cookie.parts[first].value)
    ELSE None

\* The Authorization branch without the starts_with("Bearer ") test.
bearer_token_any_scheme(authorization) ==
    IF authorization.present /\ authorization.ascii
    THEN Some(authorization.value)
    ELSE None

\* The Authorization branch: a readable value that starts with "Bearer ".
bearer_token(authorization) ==
    IF authorization.present /\ authorization.ascii /\ authorization.scheme = "Bearer "
    THEN Some(authorization.value)
    ELSE None

\* token_opt with the two branches in the other order: the header first.
token_opt_header_first(r) ==
    IF bearer_token(r.authorization).some THEN bearer_token(r.authorization)
    ELSE cookie_token(r.cookie)

\* token_opt of auth_middleware: the cookie first, the header only if the
\* cookie gave nothing.
token_opt(r) ==
    IF cookie_token(r.cookie).some THEN cookie_token(r.cookie)
    ELSE bearer_token(r.authorization)

MissingMessage ==
    "Authentication required - provide either auth_token cookie or Authorization header"
InvalidMessage == "Invalid or expired token"

\* The request extensions: at most one value of each type.
NoExtensions == <<>>
Extension(type, value) == (type :> value)

\* auth_middleware that also looks the subject up in the users table and
\* turns away the token of an account that is gone.
auth_middleware_known_account(r, key, t) ==
    LET opt == token_opt(r)
        id == extract_user_id_from_token(opt.val, key, t)
    IN IF ~opt.some
       THEN [pass |-> FALSE, status |-> 401, error |-> "Unauthorized",
             message |-> MissingMessage, user_id |-> 0, validated |-> FALSE,
             token |-> Garbage, extensions |-> NoExtensions]
       ELSE IF ~id.ok \/ id.id \notin DOMAIN users
       THEN [pass |-> FALSE, status |-> 401, error |-> "Unauthorized",
             message |-> InvalidMessage, user_id |-> 0, validated |-> TRUE,
             token |-> opt.val, extensions |-> NoExtensions]
       ELSE [pass |-> TRUE, status |-> 200, error |-> "", message |-> "",
             user_id |-> id.id, validated |-> TRUE, token |-> opt.val,
             extensions |-> Extension("Uuid", id.id)]

\* auth_middleware that asks the users table whether the subject's address
\* is verified before it lets the request through.
auth_middleware_verified_account(r, key, t) ==
    LET opt == token_opt(r)
        id == extract_user_id_from_token(opt.val, key, t)
    IN IF ~opt.some
       THEN [pass |-> FALSE, status |-> 401, error |-> "Unauthorized",
             message |-> MissingMessage, user_id |-> 0, validated |-> FALSE,
             token |-> Garbage, extensions |-> NoExtensions]
       ELSE IF ~id.ok
               \/ (id.id \in DOMAIN users /\ ~users[id.id].email_verified)
       THEN [pass |-> FALSE, status |-> 401, error |-> "Unauthorized",
             message |-> InvalidMessage, user_id |-> 0, validated |-> TRUE,
             token |-> opt.val, extensions |-> NoExtensions]
       ELSE [pass |-> TRUE, status |-> 200, error |-> "", message |-> "",
             user_id |-> id.id, validated |-> TRUE, token |-> opt.val,
             extensions |-> Extension("Uuid", id.id)]

\* auth_middleware that takes only tokens whose lifetime is that of an
\* access token.
auth_middleware_access_lifetime(r, key, t) ==
    LET opt == token_opt(r)
        id == extract_user_id_from_token(opt.val, key, t)
    IN IF ~opt.some
       THEN [pass |-> FALSE, status |-> 401, error |-> "Unauthorized",
             message |-> MissingMessage, user_id |-> 0, validated |-> FALSE,
             token |-> Garbage, extensions |-> NoExtensions]
       ELSE IF ~id.ok \/ opt.val.claims.exp - opt.val.claims.iat > AccessTokenSecs
       THEN [pass |-> FALSE, status |-> 401, error |-> "Unauthorized",
             message |-> InvalidMessage, user_id |-> 0, validated |-> TRUE,
             token |-> opt.val, extensions |-> NoExtensions]
       ELSE [pass |-> TRUE, status |-> 200, error |-> "", message |-> "",
             user_id |-> id.id, validated |-> TRUE, token |-> opt.val,
             extensions |-> Extension("Uuid", id.id)]

\* auth_middleware that puts the error it logs into the message it sends.
auth_middleware_verbose(r, key, t) ==
    LET opt == token_opt(r)
        id == extract_user_id_from_token(opt.val, key, t)
    IN IF ~opt.some
       THEN [pass |-> FALSE, status |-> 401, error |-> "Unauthorized",
             message |-> MissingMessage, user_id |-> 0, validated |-> FALSE,
             token |-> Garbage, extensions |-> NoExtensions]
       ELSE IF ~id.ok
       THEN [pass |-> FALSE, status |-> 401, error |-> "Unauthorized",
             message |-> id.err, user_id |-> 0, validated |-> TRUE,
             token |-> opt.val, extensions |-> NoExtensions]
       ELSE [pass |-> TRUE, status |-> 200, error |-> "", message |-> "",
             user_id |-> id.id, validated |-> TRUE, token |-> opt.val,
             extensions |-> Extension("Uuid", id.id)]

\* auth_middleware: what it answers, whether it ran the next handler, the
\* identity it found, what it put in the request extensions, and whether it
\* called the Token Service.
auth_middleware(r, key, t) ==
    LET opt == token_opt(r)
        id == extract_user_id_from_token(opt.val, key, t)
    IN IF ~opt.some
       THEN [pass |-> FALSE, status |-> 401, error |-> "Unauthorized",
             message |-> MissingMessage, user_id |-> 0, validated |-> FALSE,
             token |-> Garbage, extensions |-> NoExtensions]
       ELSE IF ~id.ok
       THEN [pass |-> FALSE, status |-> 401, error |-> "Unauthorized",
             message |-> InvalidMessage, user_id |-> 0, validated |-> TRUE,
             token |-> opt.val, extensions |-> NoExtensions]
       ELSE [pass |-> TRUE, status |-> 200, error |-> "", message |-> "",
             user_id |-> id.id, validated |-> TRUE, token |-> opt.val,
             extensions |-> Extension("Uuid", id.id)]

\* --------------------------------------------------------------- responses
\* The data of an answer: the tokens of a LoginResponse, the users it
\* serialises (its own, a list's, the authors of posts) and the posts.
Data(tokens, out_users, out_posts) ==
    [auth_token |-> tokens.auth_token, refresh_token |-> tokens.refresh_token,
     users |-> out_users, posts |-> out_posts]
NoTokens == [auth_token |-> Garbage, refresh_token |-> Garbage]
NoData == Data(NoTokens, {}, {})

\* A response, with what the model keeps of the request's course: when it
\* came in, whether the gate called the Token Service and on which token,
\* whether the handler ran and under which identity.
Response(op, t, status, error, message, ran, g, cookies, data) ==
    [op |-> op, at |-> t, status |-> status, error |-> error, message |-> message,
     ran |-> ran, user_id |-> g.user_id, validated |-> g.validated, token |-> g.token,
     extensions |-> g.extensions, cookies |-> cookies, data |-> data]

\* The course of a request that does not go through the gate.
Ungated == [pass |-> TRUE, status |-> 200, error |-> "", message |-> "",
            user_id |-> 0, validated |-> FALSE, token |-> Garbage,
            extensions |-> NoExtensions]

\* What the gate answers by itself when it rejects the request.
Rejected(op, t, g) ==
    Response(op, t, g.status, g.error, g.message, FALSE, g, {}, NoData)

NoRequest == Request(NoCookie, NoAuthorization)
NoResponse == Response("none", 0, 0, "", "", FALSE, Ungated, {}, NoData)

\* ------------------------------------------------------------ token holders
IssuedTokens == {e.token : e \in issued}
Issue(op, token, t) == [op |-> op, token |-> token, at |-> t]

\* What a client can put in a credential slot besides a token it was given:
\* a string that is no token, a token signed with another key, a token whose
\* claims were altered after signing, and a token of another holder of the
\* secret whose subject is not a UUID.
Resigned(token, key) == encode(token.claims, key)
Altered(token) ==
    [token EXCEPT !.claims = [token.claims EXCEPT !.exp = @ + RefreshTokenSecs]]
\* A token whose signature segment was changed after it was issued.
Tampered(token) == [token EXCEPT !.sig = HS256(token.sig.key, NoClaims)]
BadSubject(key, t) == encode(Claims(NotAUuid, "USER", t, t + AccessTokenSecs), key)

\* ------------------------------------------------------------------- clock
\* A second passes between two requests.
Tick ==
    /\ now < MaxTick
    /\ now' = now + 1
    /\ UNCHANGED <<JWT_SECRET, posts, users, nextId, issued, req, resp>>

\* Time passes until a token that is out is about to lapse, or just has:
\* the last second jsonwebtoken still takes it, and the first it does not.
Expire ==
    /\ \E tk \in IssuedTokens, d \in {Leeway, Leeway + 1} :
          /\ tk.claims.exp + d > now
          /\ now' = tk.claims.exp + d
    /\ UNCHANGED <<JWT_SECRET, posts, users, nextId, issued, req, resp>>

\* ----------------------------------------------------------- request bodies
\* Passwords are their characters; names are their trimmed length.
Uppercase == {"P", "S", "A"}
Lowercase == {"a", "s", "w", "r", "d", "e", "c", "t", "p"}
Digit == {"0", "3"}
Strong1 == <<"P", "a", "s", "s", "w", "0", "r", "d", "!">>
Strong2 == <<"S", "e", "c", "r", "3", "t", "#", "A", "a">>
Weak == <<"p", "a", "s", "s">>
\* The bcrypt crate hashes the password's bytes and a NUL, cut to this many.
BcryptMaxBytes == 72
\* Two strong passwords that differ only after their first BcryptMaxBytes bytes.
Padding(n) == [i \in 1..n |-> "a"]
Long1 == Strong1 \o Padding(BcryptMaxBytes - Len(Strong1)) \o <<"0">>
Long2 == Strong1 \o Padding(BcryptMaxBytes - Len(Strong1)) \o <<"3">>

ValidEmails == {"ann@example.com", "ann@work.example"}
Emails == ValidEmails \cup {"not-an-email"}

\* mailchecker::is_valid
is_valid(email) == email \in ValidEmails

strong_password(password) ==
    LET has_min_length == Len(password) >= 8
        has_uppercase == \E i \in 1..Len(password) : password[i] \in Uppercase
        has_lowercase == \E i \in 1..Len(password) : password[i] \in Lowercase
        has_digit == \E i \in 1..Len(password) : password[i] \in Digit
        has_special_char ==
            \E i \in 1..Len(password) :
                password[i] \notin (Uppercase \cup Lowercase \cup Digit)
    IN has_min_length /\ has_uppercase /\ has_lowercase /\ has_digit /\ has_special_char

\* validate_user_registration: Ok, or the first message that applies.
validate_user_registration(payload) ==
    IF ~is_valid(payload.email) THEN "Invalid email address"
    ELSE IF ~strong_password(payload.password) THEN "Password is not strong enough"
    ELSE IF payload.name = 0 THEN "Name cannot be empty"
    ELSE IF payload.name > 100 THEN "Name is too long"
    ELSE "Ok"

\* The Path(id) of a request: a post id, a user id, or neither.
NoPath == [post |-> "", user |-> 0]
PostPath(id) == [post |-> id, user |-> 0]
UserPath(id) == [post |-> "", user |-> id]

Body(name, email, password, new_password, token) ==
    [name |-> name, email |-> email, password |-> password,
     new_password |-> new_password, token |-> token, path |-> NoPath]
AtPath(body, path) == [body EXCEPT !.path = path]
NoBody == Body(0, "", <<>>, <<>>, Garbage)

\* The payloads clients send.  A name is its trimmed length, None is -1; an
\* email that is None is "".
RegisterPayloads ==
    {Body(3, e, p, <<>>, Garbage) : e \in ValidEmails, p \in {Strong1, Strong2}}
    \cup {Body(3, "not-an-email", Strong1, <<>>, Garbage),
          Body(3, "ann@example.com", Weak, <<>>, Garbage),
          Body(0, "ann@example.com", Strong1, <<>>, Garbage),
          Body(101, "ann@example.com", Strong1, <<>>, Garbage)}
LoginPayloads ==
    {Body(0, e, p, <<>>, Garbage) : e \in ValidEmails, p \in {Strong1, Strong2}}
    \cup {Body(0, "ann@work.example", p, <<>>, Garbage) : p \in {Long1, Long2}}
UpdatePayloads ==
    {Body(3, e, <<>>, <<>>, Garbage) : e \in Emails \cup {""}}
    \cup {Body(0, "", <<>>, <<>>, Garbage), Body(-1, "", <<>>, <<>>, Garbage)}
PasswordPayloads ==
    {Body(0, "", Strong1, Strong2, Garbage), Body(0, "", Strong2, Strong1, Garbage),
     Body(0, "", Strong1, Strong1, Garbage), Body(0, "", Strong1, Weak, Garbage),
     Body(0, "", Long1, Long2, Garbage)}

\* A request as the model records it: the two headers the gate reads and
\* the payload the handler reads.
Incoming(r, body) ==
    [cookie |-> r.cookie, authorization |-> r.authorization, body |-> body]

\* --------------------------------------------------------- credential hasher
Salts == 1..MaxSalt
Truncated(password) ==
    IF Len(password) > BcryptMaxBytes THEN SubSeq(password, 1, BcryptMaxBytes)
    ELSE password
\* bcrypt as an ideal salted hash of what it reads: the digest determines
\* the salt and the bytes of the password it took.
bcrypt(salt, password) == <<salt, Truncated(password)>>
hash_password(password, salt) == [salt |-> salt, hash |-> bcrypt(salt, password)]
verify_password(password, hashed) == bcrypt(hashed.salt, password) = hashed.hash

\* -------------------------------------------------------------- user store
\* Role::default that makes every new account an administrator.
Role_default_admin == "ADMIN"

\* Role::default, the role create_user gives; From<&str> for Role, which
\* reads the role column: whatever is not "ADMIN" is USER.
Role_default == "USER"
Role_from(s) == IF s = "ADMIN" THEN "ADMIN" ELSE "USER"

Row(email, password, role, email_verified) ==
    [email |-> email, password |-> password, role |-> role,
     email_verified |-> email_verified]

\* A users row serialised whole, as #[derive(Serialize)] on User would.
User_serialized(id, row) ==
    [id |-> id, email |-> row.email, password |-> row.password, role |-> row.role,
     email_verified |-> row.email_verified]

\* UserResponse { id, name, email, role, email_verified, .. } built from a
\* row: the type has no password field.
UserResponse(id, row) ==
    [id |-> id, email |-> row.email, role |-> row.role,
     email_verified |-> row.email_verified]

\* find_by_email: the ids whose row has this email (at most one, the column
\* is UNIQUE).
find_by_email(email) == {id \in DOMAIN users : users[id].email = email}

\* The users table without its constraint on email.
unique_email_unconstrained(email, id) == TRUE

\* email TEXT UNIQUE NOT NULL: the INSERT or UPDATE that gives row id this
\* email executes only if no other row has it.
unique_email(email, id) == find_by_email(email) \subseteq {id}

\* update_user that takes the new email and leaves email_verified alone.
update_user_keeps_verified(row, email) == [row EXCEPT !.email = email]

\* The row update_user writes when the request gives an email.
update_user(row, email) == [row EXCEPT !.email = email, !.email_verified = FALSE]

\* is_verified that only looks whether the row is there.
is_verified_any(id) == id \in DOMAIN users

\* is_verified: false as well when the row is gone.
is_verified(id) == id \in DOMAIN users /\ users[id].email_verified

\* posts.author_id REFERENCES users(id): a user row that posts point to
\* cannot be deleted, the DELETE fails.
HasPosts(id) == \E p \in DOMAIN posts : posts[p].author_id = id

\* -------------------------------------------------------------------- cookies
\* A cookie built without http_only(true): scripts of the page can read it.
SetCookie_script_readable(name, value, max_age) ==
    [name |-> name, value |-> value, max_age |-> max_age, path |-> "/",
     http_only |-> FALSE, secure |-> FALSE, same_site |-> "Lax"]

SetCookie(name, value, max_age) ==
    [name |-> name, value |-> value, max_age |-> max_age, path |-> "/",
     http_only |-> TRUE, secure |-> FALSE, same_site |-> "Lax"]

\* The pair of expired, empty cookies logout and account deletion send.
ClearedCookies ==
    {SetCookie("auth_token", Garbage, -1), SetCookie("refresh_token", Garbage, -1)}

\* ------------------------------------------------------------------- clients
\* What a client of the API holds: the tokens it was given, or none.
Held == IssuedTokens \cup {Garbage}

AsCookie(token) == Request(CookieHeader(TRUE, <<Part("auth_token", token)>>), NoAuthorization)
AsBearer(token) == Request(NoCookie, AuthorizationHeader(TRUE, "Bearer ", token))

\* The requests clients send to the protected handlers: with nothing, or
\* with a token they were given, in the cookie or in the header.
ClientRequests ==
    {NoRequest} \cup {AsCookie(tk) : tk \in IssuedTokens}
                \cup {AsBearer(tk) : tk \in IssuedTokens}

\* An error answer of a handler that sets no cookie (UnifiedResponse::Error,
\* status 400) and touches nothing.
Fails(op, r, body, g, error, message) ==
    /\ req' = Incoming(r, body)
    /\ resp' = Response(op, now, 400, error, message, TRUE, g, {}, NoData)
    /\ UNCHANGED <<now, JWT_SECRET, posts, users, nextId, issued>>

\* The gate's own answer: the handler is not run.
Refuses(op, r, body, g) ==
    /\ req' = Incoming(r, body)
    /\ resp' = Rejected(op, now, g)
    /\ UNCHANGED <<now, JWT_SECRET, posts, users, nextId, issued>>

\* ------------------------------------------------------------------ handlers
\* POST /auth/register
register_user ==
    \E payload \in RegisterPayloads :
      LET email == payload.email
          password == payload.password
          checked == validate_user_registration(payload)
      IN IF checked # "Ok"
         THEN Fails("register_user", NoRequest, payload, Ungated, "Registration Failed", checked)
         ELSE \/ Fails("register_user", NoRequest, payload, Ungated,
                       "Database Error", "Error checking existing user")
              \/ /\ find_by_email(email) # {}
                 /\ Fails("register_user", NoRequest, payload, Ungated, "Account Exists",
                          "An account with this email already exists")
              \/ /\ find_by_email(email) = {}
                 /\ Fails("register_user", NoRequest, payload, Ungated,
                          "Database Error", "Error creating user")
              \/ /\ find_by_email(email) = {}
                 /\ nextId < MaxUsers
                 /\ Cardinality(issued) < MaxIssued
                 /\ \E salt \in Salts, reads \in ClockReads(now, 2) :
                      LET id == nextId + 1
                          token == generate_email_verification_token(
                                       id, JWT_SECRET, reads[1], reads[2])
                      IN /\ users' = users @@
                                (id :> Row(email, hash_password(password, salt),
                                           Role_default, FALSE))
                         /\ nextId' = id
                         /\ issued' = issued \cup {Issue("email", token, now)}
                         /\ now' = reads[2]
                         /\ req' = Incoming(NoRequest, payload)
                         /\ resp' = Response("register_user", now, 200, "",
                                "Registration Complete, Check Email for Verification Link",
                                TRUE, Ungated, {},
                                Data(NoTokens, {UserResponse(id, users'[id])}, {}))
                         /\ UNCHANGED <<JWT_SECRET, posts>>

\* GET /auth/verify-email?token=...
verify_email ==
    \E token \in Held :
      LET payload == Body(0, "", <<>>, <<>>, token)
          id == extract_user_id_from_token(token, JWT_SECRET, now)
      IN IF ~id.ok
         THEN Fails("verify_email", NoRequest, payload, Ungated, "Invalid Token",
                    "The email verification token is invalid or has expired")
         ELSE \/ Fails("verify_email", NoRequest, payload, Ungated,
                       "Database Error", "Unable to verify email")
              \/ /\ id.id \notin DOMAIN users
                 /\ Fails("verify_email", NoRequest, payload, Ungated, "Verification Failed",
                          "User not found or already verified")
              \/ /\ id.id \in DOMAIN users
                 /\ users' = [users EXCEPT ![id.id].email_verified = TRUE]
                 /\ req' = Incoming(NoRequest, payload)
                 /\ resp' = Response("verify_email", now, 200, "",
                                     "Email Verified", TRUE, Ungated, {}, NoData)
                 /\ UNCHANGED <<now, JWT_SECRET, posts, nextId, issued>>

\* POST /auth/login
login_user ==
    \E payload \in LoginPayloads :
      LET email == payload.email
          password == payload.password
          found == find_by_email(email)
      IN \/ Fails("login_user", NoRequest, payload, Ungated,
                  "DatabaseError", "Unable to verify credentials")
         \/ /\ found = {}
            /\ Fails("login_user", NoRequest, payload, Ungated,
                     "Login Failed", "Invalid email or password")
         \/ /\ found # {}
            /\ Fails("login_user", NoRequest, payload, Ungated,
                     "Login Failed", "Unable to verify credentials")
         \/ \E user_id \in found :
              IF ~verify_password(password, users[user_id].password)
              THEN Fails("login_user", NoRequest, payload, Ungated,
                         "Login Failed", "Invalid email or password")
              ELSE \/ Fails("login_user", NoRequest, payload, Ungated,
                            "Login Failed", "Unable to verify email status")
                   \/ /\ is_verified(user_id)
                      /\ Fails("login_user", NoRequest, payload, Ungated, "Login Failed",
                               "Unable to create authentication session")
                   \/ /\ ~is_verified(user_id)
                      /\ Fails("login_user", NoRequest, payload, Ungated, "Login Failed",
                               "Email verification required. Please verify your email before logging in.")
                   \/ /\ is_verified(user_id)
                      /\ Cardinality(issued) + 2 <= MaxIssued
                      /\ \E reads \in ClockReads(now, 4) :
                           LET tokens == generate_token(
                                   user_id, Role_from(users[user_id].role), JWT_SECRET,
                                   reads[1], reads[2], reads[3], reads[4])
                           IN /\ issued' = issued \cup
                                     {Issue("access", tokens.auth_token, now),
                                      Issue("refresh", tokens.refresh_token, now)}
                              /\ now' = reads[4]
                              /\ req' = Incoming(NoRequest, payload)
                              /\ resp' = Response("login_user", now, 200, "",
                                     "Login Successful", TRUE, Ungated,
                                     {SetCookie("auth_token", tokens.auth_token,
                                                AccessCookieMaxAge),
                                      SetCookie("refresh_token", tokens.refresh_token,
                                                RefreshCookieMaxAge)},
                                     Data(tokens,
                                          {UserResponse(user_id, users[user_id])}, {}))
                              /\ UNCHANGED <<JWT_SECRET, posts, users, nextId>>

\* A success answer of a handler behind the gate that leaves the store alone.
Answers(op, r, body, g, message, cookies) ==
    /\ req' = Incoming(r, body)
    /\ resp' = Response(op, now, 200, "", message, TRUE, g, cookies, NoData)
    /\ UNCHANGED <<now, JWT_SECRET, posts, users, nextId, issued>>

\* A success answer that carries data, sets no cookie and leaves the store alone.
Returns(op, r, body, g, message, data) ==
    /\ req' = Incoming(r, body)
    /\ resp' = Response(op, now, 200, "", message, TRUE, g, {}, data)
    /\ UNCHANGED <<now, JWT_SECRET, posts, users, nextId, issued>>

\* POST /auth/logout, behind the gate
logout_user ==
    \E r \in ClientRequests :
      LET g == auth_middleware(r, JWT_SECRET, now)
      IN IF ~g.pass THEN Refuses("logout_user", r, NoBody, g)
         ELSE Answers("logout_user", r, NoBody, g, "Logout Successful",
                      ClearedCookies)

\* GET /auth/profile, behind the gate
get_profile ==
    \E r \in ClientRequests :
      LET g == auth_middleware(r, JWT_SECRET, now)
      IN IF ~g.pass THEN Refuses("get_profile", r, NoBody, g)
         ELSE \/ Fails("get_profile", r, NoBody, g,
                       "Database Error", "Error fetching user profile")
              \/ /\ g.user_id \in DOMAIN users
                 /\ Returns("get_profile", r, NoBody, g, "Profile Retrieved",
                            Data(NoTokens, {UserResponse(g.user_id, users[g.user_id])}, {}))
              \/ /\ g.user_id \notin DOMAIN users
                 /\ Answers("get_profile", r, NoBody, g, "User not found", {})

\* PUT /auth/profile, behind the gate
update_profile ==
    \E r \in ClientRequests, payload \in UpdatePayloads :
      LET g == auth_middleware(r, JWT_SECRET, now)
          name == payload.name
          email == payload.email
          id == g.user_id
      IN IF ~g.pass THEN Refuses("update_profile", r, payload, g)
         ELSE IF name = 0
         THEN Fails("update_profile", r, payload, g, "Update Failed", "Name cannot be empty")
         ELSE IF name = -1
         THEN Fails("update_profile", r, payload, g, "Update Failed", "Name is required")
         ELSE IF email # "" /\ ~is_valid(email)
         THEN Fails("update_profile", r, payload, g, "Update Failed",
                    "Please provide a valid email address")
         ELSE \/ Fails("update_profile", r, payload, g,
                       "Database Error", "Error updating user profile")
              \/ /\ id \notin DOMAIN users
                 /\ Answers("update_profile", r, payload, g, "User not found", {})
              \/ /\ id \in DOMAIN users
                 /\ email = ""
                 /\ Returns("update_profile", r, payload, g, "Profile Updated",
                            Data(NoTokens, {UserResponse(id, users[id])}, {}))
              \/ /\ id \in DOMAIN users
                 /\ email # ""
                 /\ unique_email(email, id)
                 /\ Cardinality(issued) < MaxIssued
                 /\ \E reads \in ClockReads(now, 2) :
                      LET token == generate_email_verification_token(
                                       id, JWT_SECRET, reads[1], reads[2])
                      IN /\ users' = [users EXCEPT ![id] = update_user(@, email)]
                         /\ issued' = issued \cup {Issue("email", token, now)}
                         /\ now' = reads[2]
                         /\ req' = Incoming(r, payload)
                         /\ resp' = Response("update_profile", now, 200, "",
                                        "Profile Updated", TRUE, g, {},
                                        Data(NoTokens, {UserResponse(id, users'[id])}, {}))
                         /\ UNCHANGED <<JWT_SECRET, posts, nextId>>

\* PUT /auth/change-password, behind the gate
change_password ==
    \E r \in ClientRequests, payload \in PasswordPayloads :
      LET g == auth_middleware(r, JWT_SECRET, now)
          old_password == payload.password
          new_password == payload.new_password
          id == g.user_id
      IN IF ~g.pass THEN Refuses("change_password", r, payload, g)
         ELSE IF ~strong_password(new_password)
         THEN Fails("change_password", r, payload, g, "Weak Password",
                    "Password must be at least 8 characters long with mixed case, numbers, and special characters")
         ELSE IF old_password = new_password
         THEN Fails("change_password", r, payload, g, "Invalid Password",
                    "New password must be different from current password")
         ELSE \/ Fails("change_password", r, payload, g,
                       "Database Error", "Unable to retrieve user account")
              \/ /\ id \notin DOMAIN users
                 /\ Fails("change_password", r, payload, g,
                          "User Not Found", "User account not found")
              \/ /\ id \in DOMAIN users
                 /\ ~verify_password(old_password, users[id].password)
                 /\ Fails("change_password", r, payload, g,
                          "Incorrect Password", "Current password is incorrect")
              \/ /\ id \in DOMAIN users
                 /\ verify_password(old_password, users[id].password)
                 /\ \/ Fails("change_password", r, payload, g,
                             "Database Error", "Unable to update password")
                    \/ \E salt \in Salts :
                         /\ users' = [users EXCEPT
                                ![id].password = hash_password(new_password, salt)]
                         /\ req' = Incoming(r, payload)
                         /\ resp' = Response("change_password", now, 200, "",
                                        "Password Changed", TRUE, g, {}, NoData)
                         /\ UNCHANGED <<now, JWT_SECRET, posts, nextId, issued>>

\* DELETE /auth/profile, behind the gate
delete_user_account ==
    \E r \in ClientRequests :
      LET g == auth_middleware(r, JWT_SECRET, now)
          id == g.user_id
      IN IF ~g.pass THEN Refuses("delete_user_account", r, NoBody, g)
         ELSE \/ Fails("delete_user_account", r, NoBody, g,
                       "DatabaseError", "Unable to delete user account")
              \/ /\ id \notin DOMAIN users
                 /\ Fails("delete_user_account", r, NoBody, g,
                          "Deletion Failed", "User account not found")
              \/ /\ id \in DOMAIN users
                 /\ ~HasPosts(id)
                 /\ users' = [u \in DOMAIN users \ {id} |-> users[u]]
                 /\ req' = Incoming(r, NoBody)
                 /\ resp' = Response("delete_user_account", now, 200, "",
                                "Account Deleted", TRUE, g, ClearedCookies, NoData)
                 /\ UNCHANGED <<now, JWT_SECRET, posts, nextId, issued>>

\* ------------------------------------------------------------ specification
Init ==
    /\ now = 0
    /\ JWT_SECRET \in Secrets
    /\ users = <<>>
    /\ posts = <<>>
    /\ nextId = 0
    /\ issued = {}
    /\ req = Incoming(NoRequest, NoBody)
    /\ resp = NoResponse

Next ==
    \/ Tick
    \/ register_user
    \/ verify_email
    \/ login_user
    \/ logout_user
    \/ get_profile
    \/ update_profile
    \/ change_password
    \/ delete_user_account

Spec == Init /\ [][Next]_vars

\* Sessions over time: the account operations that follow a login, with the
\* clock run up to the expiry of the tokens that are out.
NextExpiry ==
    \/ Expire
    \/ register_user
    \/ verify_email
    \/ login_user
    \/ logout_user
    \/ get_profile
    \/ change_password
    \/ delete_user_account

\* It starts where the clock is no longer followed second by second.
InitExpiry ==
    /\ now = MaxTick
    /\ JWT_SECRET \in Secrets
    /\ users = <<>>
    /\ posts = <<>>
    /\ nextId = 0
    /\ issued = {}
    /\ req = Incoming(NoRequest, NoBody)
    /\ resp = NoResponse

SpecExpiry == InitExpiry /\ [][NextExpiry]_vars

\* ------------------------------------------------------------ the gate alone
\* What can be put in a credential slot: the tokens that are out, a string
\* that is no token, a token under another key, a token altered after
\* signing, and a signed token whose subject is no UUID.
AccessTokens == {e.token : e \in {i \in issued : i.op = "access"}}
Forged ==
    {Garbage, BadSubject(JWT_SECRET, 0)}
    \cup {Resigned(tk, ForeignSecret) : tk \in AccessTokens}
    \cup {Altered(tk) : tk \in AccessTokens}
Presentable == IssuedTokens \cup Forged

\* Cookie headers: the token alone; after another cookie; before a second
\* auth_token entry; in a header that is not visible ASCII; under another
\* name.
GateCookies ==
    {NoCookie}
    \cup {CookieHeader(TRUE, <<Part("auth_token", x)>>) : x \in Presentable}
    \cup {CookieHeader(TRUE, <<Part("theme", Garbage), Part("auth_token", x)>>) :
            x \in IssuedTokens}
    \cup {CookieHeader(TRUE, <<Part("auth_token", x), Part("auth_token", Garbage)>>) :
            x \in IssuedTokens}
    \cup {CookieHeader(FALSE, <<Part("auth_token", x)>>) : x \in IssuedTokens}
    \cup {CookieHeader(TRUE, <<Part("refresh_token", x)>>) : x \in IssuedTokens}

\* Authorization headers: Bearer with the token; another scheme; another
\* case; a value that is not visible ASCII.
GateAuthorizations ==
    {NoAuthorization}
    \cup {AuthorizationHeader(TRUE, "Bearer ", y) : y \in Presentable}
    \cup {AuthorizationHeader(TRUE, "Basic ", y) : y \in AccessTokens}
    \cup {AuthorizationHeader(TRUE, "bearer ", y) : y \in AccessTokens}
    \cup {AuthorizationHeader(FALSE, "Bearer ", y) : y \in AccessTokens}

\* A request to a protected route; the handler behind the gate is any.
gate_request ==
    \E cookie \in GateCookies, authorization \in GateAuthorizations :
      LET r == Request(cookie, authorization)
          g == auth_middleware(r, JWT_SECRET, now)
      IN /\ req' = Incoming(r, NoBody)
         /\ resp' = IF g.pass
                    THEN Response("next", now, 200, "", "", TRUE, g, {}, NoData)
                    ELSE Rejected("next", now, g)
         /\ UNCHANGED <<now, JWT_SECRET, posts, users, nextId, issued>>

\* The tokens of one session and one verification mail are out.
InitGate ==
    /\ now = MaxTick
    /\ JWT_SECRET \in Secrets
    /\ users = <<>>
    /\ posts = <<>>
    /\ nextId = 0
    /\ \E id \in UserIds, role \in Roles :
         LET tokens == generate_token(id, role, JWT_SECRET, now, now, now, now)
             mail == generate_email_verification_token(id, JWT_SECRET, now, now)
         IN issued = {Issue("access", tokens.auth_token, now),
                      Issue("refresh", tokens.refresh_token, now),
                      Issue("email", mail, now)}
    /\ req = Incoming(NoRequest, NoBody)
    /\ resp = NoResponse

NextGate ==
    \/ Expire
    \/ gate_request

SpecGate == InitGate /\ [][NextGate]_vars

\* ----------------------------------------------------------------- the router
\* A request line.  A path is the sequence of the pieces it is written
\* from, so that one path begins with another exactly if its pieces do;
\* "post-1" stands for a path segment that is a UUID, "my" and "-notes" for
\* pieces that are none.
Methods == {"GET", "HEAD", "POST", "PUT", "DELETE", "PATCH"}
Uris ==
    {<<"/">>, <<"/auth/register">>, <<"/auth/login">>, <<"/auth/logout">>,
     <<"/auth/profile">>, <<"/auth/profile", "/">>, <<"/auth/verify-email">>,
     <<"/posts">>, <<"/posts", "/">>, <<"/posts", "/", "my">>,
     <<"/posts", "/", "post-1">>, <<"/posts", "/", "my", "-notes">>,
     <<"/posts", "/", "post-1", "/", "comments">>}

\* str::starts_with
starts_with(path, prefix) ==
    Len(prefix) <= Len(path) /\ SubSeq(path, 1, Len(prefix)) = prefix

\* The condition of the layer's closure that leaves out the posts of the
\* caller.
requires_auth_without_my(method, path) ==
    \/ starts_with(path, <<"/auth/profile">>)
    \/ starts_with(path, <<"/auth/logout">>)
    \/ starts_with(path, <<"/posts">>) /\ method = "POST"
    \/ (starts_with(path, <<"/posts", "/">>)
           /\ (method = "PUT" \/ method = "DELETE"))

\* The condition under which the layer's closure calls auth_middleware.
requires_auth(method, path) ==
    \/ starts_with(path, <<"/auth/profile">>)
    \/ starts_with(path, <<"/auth/logout">>)
    \/ starts_with(path, <<"/posts">>) /\ method = "POST"
    \/ starts_with(path, <<"/posts", "/", "my">>)
    \/ (starts_with(path, <<"/posts", "/">>)
           /\ (method = "PUT" \/ method = "DELETE"))

\* The routes of the Router: for a path, the handler of each method it has.
\* A route of get also takes HEAD.  "/posts/{id}" takes one segment that is
\* not empty; the static "/posts/my" goes before it.
NoRoute == [GET |-> "", POST |-> "", PUT |-> "", DELETE |-> ""]
IsSegment(path) ==
    /\ Len(path) >= 3
    /\ SubSeq(path, 1, 2) = <<"/posts", "/">>
    /\ \A i \in 3..Len(path) : path[i] # "/"
MethodRouter(path) ==
    IF path = <<"/">> THEN [NoRoute EXCEPT !.GET = "home"]
    ELSE IF path = <<"/auth/register">> THEN [NoRoute EXCEPT !.POST = "register_user"]
    ELSE IF path = <<"/auth/login">> THEN [NoRoute EXCEPT !.POST = "login_user"]
    ELSE IF path = <<"/auth/logout">> THEN [NoRoute EXCEPT !.POST = "logout_user"]
    ELSE IF path = <<"/auth/profile">>
    THEN [NoRoute EXCEPT !.GET = "get_profile", !.PUT = "update_profile"]
    ELSE IF path = <<"/posts">>
    THEN [NoRoute EXCEPT !.GET = "get_all_posts", !.POST = "create_post"]
    ELSE IF path = <<"/posts", "/", "my">>
    THEN [NoRoute EXCEPT !.GET = "get_user_posts"]
    ELSE IF IsSegment(path)
    THEN [NoRoute EXCEPT !.GET = "get_post", !.PUT = "update_post",
                         !.DELETE = "delete_post"]
    ELSE NoRoute

\* What the Router calls for a request line: a handler, the fallback when
\* no route has the path, or the answer 405 of a route without the method.
route(method, path) ==
    LET routes == MethodRouter(path)
        m == IF method = "HEAD" THEN "GET" ELSE method
    IN IF routes = NoRoute THEN "handler_404"
       ELSE IF m \in DOMAIN routes /\ routes[m] # "" THEN routes[m]
       ELSE "method_not_allowed"

\* Path<Uuid> of get_post, update_post and delete_post: the handler is
\* entered only if the segment parses as a UUID.
Path_Uuid(path) == path = <<"/posts", "/", "post-1">>

\* The request as the router's side sees it.
Routed(r, method, path) ==
    [cookie |-> r.cookie, authorization |-> r.authorization, body |-> NoBody,
     method |-> method, uri |-> path]

\* What clients put on a request to any route: nothing, a token that is
\* out, or one that is not valid.
RouterClients ==
    {Request(c, a) :
        c \in {NoCookie}
               \cup {CookieHeader(TRUE, <<Part("auth_token", x)>>) :
                       x \in AccessTokens \cup {Garbage}},
        a \in {NoAuthorization}
               \cup {AuthorizationHeader(TRUE, "Bearer ", y) :
                       y \in AccessTokens \cup {Altered(tk) : tk \in AccessTokens}}}

\* A request through the layer and the Router.  What the handler answers
\* once it is entered is left open: the answer records which handler was
\* entered and what the layer did before.
serve ==
    \E r \in RouterClients, method \in Methods, path \in Uris :
      LET g == IF requires_auth(method, path)
               THEN auth_middleware(r, JWT_SECRET, now) ELSE Ungated
          op == route(method, path)
      IN /\ req' = Routed(r, method, path)
         /\ resp' =
              IF ~g.pass THEN Rejected(op, now, g)
              ELSE IF op = "handler_404"
              THEN Response(op, now, 404, "Not Found", "", TRUE, g, {}, NoData)
              ELSE IF op = "method_not_allowed"
              THEN Response(op, now, 405, "Method Not Allowed", "", FALSE, g, {}, NoData)
              ELSE IF op \in {"get_post", "update_post", "delete_post"}
                      /\ ~Path_Uuid(path)
              THEN Response(op, now, 400, "Invalid URL", "", FALSE, g, {}, NoData)
              ELSE Response(op, now, 200, "", "", TRUE, g, {}, NoData)
         /\ UNCHANGED <<now, JWT_SECRET, posts, users, nextId, issued>>

NextRouter == serve

SpecRouter == InitGate /\ [][NextRouter]_vars

\* ---------------------------------------------------------------------- posts
PostRow(title, content, author_id) ==
    [title |-> title, content |-> content, author_id |-> author_id]

\* PostResponse: the post with its author as a UserResponse.
PostResponse(id) ==
    [id |-> id, title |-> posts[id].title, content |-> posts[id].content,
     author |-> posts[id].author_id]

\* model::Post as find_by_author returns it.
Post(id) ==
    [id |-> id, title |-> posts[id].title, content |-> posts[id].content,
     author |-> posts[id].author_id]

\* The {id} of a /posts/{id} path: a post that may be stored, and one that
\* never is.
PathPosts == {"post-1", "post-2"}

\* CreatePostRequest and UpdatePostRequest: a title is its trimmed length,
\* as a name is; a title that is None is -1.
CreatePostPayloads ==
    {Body(0, "", <<>>, <<>>, Garbage), Body(5, "", <<>>, <<>>, Garbage)}
UpdatePostPayloads ==
    {Body(-1, "", <<>>, <<>>, Garbage), Body(6, "", <<>>, <<>>, Garbage)}

\* The handler's task panics before it answers: the connection is closed
\* without a response.
Panics(op, r, body, g) ==
    /\ req' = Incoming(r, body)
    /\ resp' = Response(op, now, 0, "panic", "", TRUE, g, {}, NoData)

\* The test update_post and delete_post of the repository make on the row
\* they found: the caller is the post's author.
\* The test that takes every caller for the author.
is_author_any(id, authod_id) == TRUE

is_author(id, authod_id) == posts[id].author_id = authod_id

\* GET /posts, public
get_all_posts ==
    \/ Fails("get_all_posts", NoRequest, NoBody, Ungated,
             "Database Error", "Unable to retrieve posts")
    \/ Returns("get_all_posts", NoRequest, NoBody, Ungated, "Posts Retrieved",
               Data(NoTokens,
                    {UserResponse(posts[p].author_id, users[posts[p].author_id]) :
                        p \in DOMAIN posts},
                    {PostResponse(p) : p \in DOMAIN posts}))

\* GET /posts/{id}, public.  find_by_id_with_author selects p.id as post_id
\* and then reads the column "id" of the row it found.
get_post ==
    \E id \in PathPosts :
      LET path == AtPath(NoBody, PostPath(id))
      IN \/ Fails("get_post", NoRequest, path, Ungated,
                  "Database Error", "Unable to retrieve post")
         \/ /\ id \in DOMAIN posts
            /\ Panics("get_post", NoRequest, path, Ungated)
            /\ UNCHANGED <<now, JWT_SECRET, posts, users, nextId, issued>>
         \/ /\ id \notin DOMAIN posts
            /\ Answers("get_post", NoRequest, path, Ungated, "Post not found", {})

\* POST /posts, behind the gate.  The INSERT of PostRepository::create_post
\* does not close its VALUES list: the statement never executes.
create_post ==
    \E r \in ClientRequests, payload \in CreatePostPayloads :
      LET g == auth_middleware(r, JWT_SECRET, now)
      IN IF ~g.pass THEN Refuses("create_post", r, payload, g)
         ELSE IF payload.name = 0
         THEN Fails("create_post", r, payload, g, "Creation Failed",
                    "Title and content are required")
         ELSE Fails("create_post", r, payload, g,
                    "Database Error", "Unable to create post")

\* GET /posts/my, behind the gate
get_user_posts ==
    \E r \in ClientRequests :
      LET g == auth_middleware(r, JWT_SECRET, now)
      IN IF ~g.pass THEN Refuses("get_user_posts", r, NoBody, g)
         ELSE \/ Fails("get_user_posts", r, NoBody, g,
                       "Database Error", "Unable to retrieve your posts")
              \/ Returns("get_user_posts", r, NoBody, g, "Your Posts Retrieved",
                         Data(NoTokens, {},
                              {Post(p) : p \in {q \in DOMAIN posts :
                                                  posts[q].author_id = g.user_id}}))

\* PUT /posts/{id}, behind the gate.  PostRepository::update_post bails when
\* the caller is not the author; after the UPDATE the handler reads the post
\* back with find_by_id_with_author.
update_post ==
    \E r \in ClientRequests, id \in PathPosts, payload \in UpdatePostPayloads :
      LET g == auth_middleware(r, JWT_SECRET, now)
          path == AtPath(payload, PostPath(id))
      IN IF ~g.pass THEN Refuses("update_post", r, path, g)
         ELSE \/ Fails("update_post", r, path, g,
                       "Database Error", "Unable to update post")
              \/ /\ id \notin DOMAIN posts
                 /\ Answers("update_post", r, path, g,
                            "Post not found or you are not authorized to update it", {})
              \/ /\ id \in DOMAIN posts
                 /\ ~is_author(id, g.user_id)
                 /\ Fails("update_post", r, path, g,
                          "Database Error", "Unable to update post")
              \/ /\ id \in DOMAIN posts
                 /\ is_author(id, g.user_id)
                 /\ posts' = [posts EXCEPT ![id].title =
                                 IF payload.name = -1 THEN @ ELSE payload.name]
                 /\ \/ /\ req' = Incoming(r, path)
                       /\ resp' = Response("update_post", now, 400, "Database Error",
                                           "Unable to retrieve updated post details",
                                           TRUE, g, {}, NoData)
                    \/ Panics("update_post", r, path, g)
                 /\ UNCHANGED <<now, JWT_SECRET, users, nextId, issued>>

\* DELETE /posts/{id}, behind the gate
delete_post ==
    \E r \in ClientRequests, id \in PathPosts :
      LET g == auth_middleware(r, JWT_SECRET, now)
          path == AtPath(NoBody, PostPath(id))
      IN IF ~g.pass THEN Refuses("delete_post", r, path, g)
         ELSE \/ Fails("delete_post", r, path, g,
                       "Database Error", "Unable to delete post")
              \/ /\ id \notin DOMAIN posts
                 /\ Answers("delete_post", r, path, g,
                            "Post not found or unauthorized access", {})
              \/ /\ id \in DOMAIN posts
                 /\ ~is_author(id, g.user_id)
                 /\ Fails("delete_post", r, path, g,
                          "Database Error", "Unable to delete post")
              \/ /\ id \in DOMAIN posts
                 /\ is_author(id, g.user_id)
                 /\ posts' = [q \in DOMAIN posts \ {id} |-> posts[q]]
                 /\ req' = Incoming(r, path)
                 /\ resp' = Response("delete_post", now, 200, "", "Post Deleted",
                                     TRUE, g, {}, NoData)
                 /\ UNCHANGED <<now, JWT_SECRET, users, nextId, issued>>

\* -------------------------------------------------------- admin operations
\* helpers::middleware::check_admin_role, which the handlers import, has no
\* body in the repository.  It is taken to be the role check the
\* specification describes, require_role(actual, ADMIN): Ok only for ADMIN.
\* The role check that lets every role through.
check_admin_role_any(user_role) ==
    [ok |-> TRUE, error |-> "Forbidden", message |-> "Admin access required"]

check_admin_role(user_role) ==
    [ok |-> user_role = "ADMIN", error |-> "Forbidden",
     message |-> "Admin access required"]

\* The request as an admin handler is entered with it: auth_middleware puts
\* no Role in the extensions, so the Extension<Role> the handler takes comes
\* from a layer that is not in the repository, and may be any role.
WithRole(g, user_role) ==
    [g EXCEPT !.extensions = Extension("Role", user_role) @@ @]

\* The {id} of an admin path: a stored user, or an id that is not stored.
PathUsers == DOMAIN users \cup UserIds

\* GET /admin/users
get_all_users_admin ==
    \E r \in ClientRequests, user_role \in Roles :
      LET gate == auth_middleware(r, JWT_SECRET, now)
          g == WithRole(gate, user_role)
          checked == check_admin_role(user_role)
      IN IF ~gate.pass THEN Refuses("get_all_users_admin", r, NoBody, gate)
         ELSE IF ~checked.ok
         THEN Fails("get_all_users_admin", r, NoBody, g, checked.error, checked.message)
         ELSE \/ Fails("get_all_users_admin", r, NoBody, g,
                       "Database Error", "Error fetching users")
              \/ Returns("get_all_users_admin", r, NoBody, g, "Users Retrieved",
                         Data(NoTokens,
                              {UserResponse(u, users[u]) : u \in DOMAIN users}, {}))

\* DELETE /admin/users/{id}
delete_user_admin ==
    \E r \in ClientRequests, user_role \in Roles, target_user_id \in PathUsers :
      LET gate == auth_middleware(r, JWT_SECRET, now)
          g == WithRole(gate, user_role)
          checked == check_admin_role(user_role)
          admin_user_id == gate.user_id
          path == AtPath(NoBody, UserPath(target_user_id))
      IN IF ~gate.pass THEN Refuses("delete_user_admin", r, path, gate)
         ELSE IF ~checked.ok
         THEN Fails("delete_user_admin", r, path, g, checked.error, checked.message)
         ELSE IF admin_user_id = target_user_id
         THEN Fails("delete_user_admin", r, path, g, "Invalid Operation",
                    "Admins cannot delete their own account through this endpoint. Use the profile deletion endpoint instead.")
         ELSE \/ Fails("delete_user_admin", r, path, g,
                       "Database Error", "Unable to delete user account")
              \/ /\ target_user_id \notin DOMAIN users
                 /\ Answers("delete_user_admin", r, path, g, "User not found", {})
              \/ /\ target_user_id \in DOMAIN users
                 /\ ~HasPosts(target_user_id)
                 /\ users' = [u \in DOMAIN users \ {target_user_id} |-> users[u]]
                 /\ req' = Incoming(r, path)
                 /\ resp' = Response("delete_user_admin", now, 200, "", "User Deleted",
                                     TRUE, g, {}, NoData)
                 /\ UNCHANGED <<now, JWT_SECRET, posts, nextId, issued>>

\* ------------------------------------------------- over a database in use
\* The server is started on a database that already holds accounts and a
\* post: an administrator and a member, both verified, and a post of one of
\* them.  Their ids lie outside the ids registration hands out.
Admin == MaxUsers + 1
Member == MaxUsers + 2

InitStore ==
    /\ now = MaxTick
    /\ JWT_SECRET \in Secrets
    /\ \E s1 \in Salts, s2 \in Salts, password \in {Strong2, Long1},
          author \in {Admin, Member} :
         /\ users = (Admin :> Row("ann@example.com", hash_password(Strong1, s1),
                                  "ADMIN", TRUE))
                    @@ (Member :> Row("ann@work.example", hash_password(password, s2),
                                      "USER", TRUE))
         /\ posts = ("post-1" :> PostRow(5, 5, author))
    /\ nextId = 0
    /\ issued = {}
    /\ req = Incoming(NoRequest, NoBody)
    /\ resp = NoResponse

NextStore ==
    \/ login_user
    \/ logout_user
    \/ get_profile
    \/ delete_user_account
    \/ get_all_users_admin
    \/ delete_user_admin
    \/ get_all_posts
    \/ get_post
    \/ create_post
    \/ get_user_posts
    \/ update_post
    \/ delete_post

SpecStore == InitStore /\ [][NextStore]_vars

\* The account handlers on the database in use.
NextAccount ==
    \/ register_user
    \/ login_user
    \/ change_password
    \/ update_profile
    \/ verify_email
    \/ delete_user_account

SpecAccount == InitStore /\ [][NextAccount]_vars

\* --------------------------------------------------- requests in parallel
\* Two connections whose handlers run at the same time: a handler gives way
\* at each await, so register_user is two steps, the find_by_email it
\* passes and the create_user it then calls, and a step of the other
\* connection can come between them.  In this specification req holds,
\* for each connection, the request in flight and whether its handler
\* stands before create_user, and resp the last answer on the connection.
Connections == {1, 2}
Idle(body) == [body |-> body, at |-> "idle"]
NewId(c) == Member + c

\* register_user up to the await of create_user
register_user_find_by_email(c) ==
    /\ req[c].at = "idle"
    /\ NewId(c) \notin DOMAIN users
    /\ \E email \in ValidEmails :
         LET payload == Body(3, email, Strong1, <<>>, Garbage)
         IN IF find_by_email(email) # {}
            THEN /\ req' = [req EXCEPT ![c] = Idle(payload)]
                 /\ resp' = [resp EXCEPT ![c] =
                        Response("register_user", now, 400, "Account Exists",
                                 "An account with this email already exists",
                                 TRUE, Ungated, {}, NoData)]
            ELSE /\ req' = [req EXCEPT ![c] = [body |-> payload, at |-> "create_user"]]
                 /\ resp' = resp
    /\ UNCHANGED <<now, JWT_SECRET, posts, users, nextId, issued>>

\* register_user from create_user on: the INSERT and the answer
register_user_create_user(c) ==
    /\ req[c].at = "create_user"
    /\ LET payload == req[c].body
           id == NewId(c)
       IN IF ~unique_email(payload.email, id)
          THEN /\ resp' = [resp EXCEPT ![c] =
                      Response("register_user", now, 400, "Database Error",
                               "Error creating user", TRUE, Ungated, {}, NoData)]
               /\ UNCHANGED <<users, issued>>
          ELSE \E salt \in Salts :
                 LET token == generate_email_verification_token(
                                  id, JWT_SECRET, now, now)
                 IN /\ users' = users @@
                          (id :> Row(payload.email,
                                     hash_password(payload.password, salt),
                                     Role_default, FALSE))
                    /\ issued' = issued \cup {Issue("email", token, now)}
                    /\ resp' = [resp EXCEPT ![c] =
                          Response("register_user", now, 200, "",
                            "Registration Complete, Check Email for Verification Link",
                            TRUE, Ungated, {},
                            Data(NoTokens, {UserResponse(id, users'[id])}, {}))]
    /\ req' = [req EXCEPT ![c] = Idle(@.body)]
    /\ UNCHANGED <<now, JWT_SECRET, posts, nextId>>

\* update_profile of the stored account with an email, past the gate: the
\* UPDATE of update_user and the answer
update_profile_update_user(c) ==
    /\ req[c].at = "idle"
    /\ \E email \in ValidEmails, g \in {auth_middleware(AsCookie(tk), JWT_SECRET, now) :
                                         tk \in IssuedTokens} :
         LET payload == Body(3, email, <<>>, <<>>, Garbage)
             id == g.user_id
         IN /\ g.pass /\ id \in DOMAIN users
            /\ req' = [req EXCEPT ![c] = Idle(payload)]
            /\ IF ~unique_email(email, id)
               THEN /\ resp' = [resp EXCEPT ![c] =
                           Response("update_profile", now, 400, "Database Error",
                                    "Error updating user profile", TRUE, g, {}, NoData)]
                    /\ UNCHANGED <<users, issued>>
               ELSE /\ users' = [users EXCEPT ![id] = update_user(@, email)]
                    /\ issued' = issued \cup
                          {Issue("email",
                                 generate_email_verification_token(id, JWT_SECRET, now, now),
                                 now)}
                    /\ resp' = [resp EXCEPT ![c] =
                           Response("update_profile", now, 200, "", "Profile Updated",
                                    TRUE, g, {},
                                    Data(NoTokens, {UserResponse(id, users'[id])}, {}))]
    /\ UNCHANGED <<now, JWT_SECRET, posts, nextId>>

\* One account is stored and logged in; no request is in flight.
InitRace ==
    /\ now = MaxTick
    /\ JWT_SECRET \in Secrets
    /\ \E salt \in Salts, email \in ValidEmails, verified \in BOOLEAN :
         users = (Member :> Row(email, hash_password(Strong2, salt), "USER", verified))
    /\ posts = <<>>
    /\ nextId = 0
    /\ LET tokens == generate_token(Member, "USER", JWT_SECRET, now, now, now, now)
       IN issued = {Issue("access", tokens.auth_token, now)}
    /\ req = [c \in Connections |-> Idle(NoBody)]
    /\ resp = [c \in Connections |-> NoResponse]

NextRace ==
    \E c \in Connections :
       \/ register_user_find_by_email(c)
       \/ register_user_create_user(c)
       \/ update_profile_update_user(c)

SpecRace == InitRace /\ [][NextRace]_vars

\* ------------------------------------------------------- the signing secret
\* JWT_SECRET is a lazy_static: its initializer runs at the first
\* dereference, which is in encode's and decode's key argument, and the value
\* stays for the life of the process.  main never dereferences it.
Uninitialized == "(uninitialized)"

\* What the initializer evaluates to: AUTH_SECRET when the environment has
\* it, else a fresh generate_base64_string().
RandomSecrets == {"random-1", "random-2"}
InitializerValues == Secrets \cup RandomSecrets

\* A static whose initializer runs at every dereference.
lazy_static_deref_again(cell, init) == init

\* Dereferencing the static: the initializer's value the first time, the
\* stored value ever after.
lazy_static_deref(cell, init) == IF cell = Uninitialized THEN init ELSE cell

\* AuthHelper::generate_token, as login_user calls it once its checks passed.
call_generate_token ==
    \E init \in InitializerValues, id \in UserIds, role \in Roles :
      LET key == lazy_static_deref(JWT_SECRET, init)
          tokens == generate_token(id, role, key, now, now, now, now)
      IN /\ Cardinality(issued) + 2 <= MaxIssued
         /\ JWT_SECRET' = key
         /\ issued' = issued \cup {Issue("access", tokens.auth_token, now),
                                   Issue("refresh", tokens.refresh_token, now)}
         /\ req' = Incoming(NoRequest, NoBody)
         /\ resp' = Response("generate_token", now, 200, "", "", TRUE, Ungated, {},
                             Data(tokens, {}, {}))
         /\ UNCHANGED <<now, users, posts, nextId>>

\* AuthHelper::generate_email_verification_token, as register_user calls it
\* once the row is stored.
call_generate_email_verification_token ==
    \E init \in InitializerValues, id \in UserIds :
      LET key == lazy_static_deref(JWT_SECRET, init)
          token == generate_email_verification_token(id, key, now, now)
      IN /\ Cardinality(issued) < MaxIssued
         /\ JWT_SECRET' = key
         /\ issued' = issued \cup {Issue("email", token, now)}
         /\ req' = Incoming(NoRequest, NoBody)
         /\ resp' = Response("generate_email_verification_token", now, 200, "", "",
                             TRUE, Ungated, {}, NoData)
         /\ UNCHANGED <<now, users, posts, nextId>>

\* A request to a protected route: the gate dereferences the secret when it
\* has a token to validate, and only then.
first_gate_request ==
    \E init \in InitializerValues, r \in ClientRequests :
      LET key == lazy_static_deref(JWT_SECRET, init)
          g == auth_middleware(r, key, now)
      IN /\ JWT_SECRET' = IF token_opt(r).some THEN key ELSE JWT_SECRET
         /\ req' = Incoming(r, NoBody)
         /\ resp' = IF g.pass
                    THEN Response("next", now, 200, "", "", TRUE, g, {}, NoData)
                    ELSE Rejected("next", now, g)
         /\ UNCHANGED <<now, users, posts, nextId, issued>>

\* The process has just started: nothing has dereferenced the secret.
InitSecret ==
    /\ now = MaxTick
    /\ JWT_SECRET = Uninitialized
    /\ users = <<>>
    /\ posts = <<>>
    /\ nextId = 0
    /\ issued = {}
    /\ req = Incoming(NoRequest, NoBody)
    /\ resp = NoResponse

NextSecret ==
    \/ Expire
    \/ get_all_posts
    \/ call_generate_token
    \/ call_generate_email_verification_token
    \/ first_gate_request

SpecSecret == InitSecret /\ [][NextSecret]_vars

\* ================================================================ properties
\* The tokens a request carries in the two places the gate looks: an
\* auth_token entry of the Cookie header, the rest of a "Bearer " value.
Carried(r) ==
    {r.cookie.parts[i].value :
        i \in {j \in 1..Len(r.cookie.parts) : r.cookie.parts[j].name = "auth_token"}}
    \cup (IF r.authorization.present /\ r.authorization.scheme = "Bearer "
          THEN {r.authorization.value} ELSE {})

\* The token is one validate_token accepts at t and whose subject is a UUID.
Accepted(tk, t) ==
    /\ validate_token(tk, JWT_SECRET, t).ok
    /\ Uuid_parse_str(tk.claims.sub).ok

Subject(tk) == Uuid_parse_str(tk.claims.sub).id

\* The gate has answered the last request, or let it through.
Gated == resp.op # "none" /\ (resp.validated \/ ~resp.ran)

SessionIssues == {e \in issued : e.op \in {"access", "refresh"}}
EmailIssues == {e \in issued : e.op = "email"}

\* The step handles a request to op.
Handled(op) == resp'.op = op /\ <<req', resp'>> # <<req, resp>>

\* ------------------------------------------------------------------------ C1
\* C1: behind auth_middleware the handler runs only if the request carries
\* a token that validate_token accepts at that time and whose subject parses
\* as a UUID, and then under that subject as identity; a request that
\* carries only such a token, as `Authorization: Bearer <token>` or as the
\* cookie `auth_token=<token>`, does reach the handler under the subject.
C1_HandlerOnlyForValidToken ==
    /\ resp.ran /\ resp.validated =>
         \E tk \in Carried(req) :
            /\ Accepted(tk, resp.at)
            /\ resp.user_id = Subject(tk)
    /\ resp.op = "next" /\ resp.ran => resp.validated
    /\ \A tk \in Carried(req) :
         /\ resp.op = "next"
         /\ Accepted(tk, resp.at)
         /\ \/ /\ req.cookie = CookieHeader(TRUE, <<Part("auth_token", tk)>>)
               /\ req.authorization = NoAuthorization
            \/ /\ req.cookie = NoCookie
               /\ req.authorization = AuthorizationHeader(TRUE, "Bearer ", tk)
         => resp.ran /\ resp.user_id = Subject(tk)

\* The access token of user 1, past the email token's expiry, as a cookie.
C1_Witness ==
    /\ resp.op = "next" /\ resp.ran /\ resp.user_id = 1
    /\ req.authorization = NoAuthorization
    /\ resp.token \in AccessTokens
    /\ resp.at > MaxTick

C3_EmailTokenNoSessionCredential ==
    resp.ran /\ resp.validated => resp.token \notin {e.token : e \in EmailIssues}

\* ------------------------------------------------------------------------ C4
\* C4: session tokens are generated only by a login, and a login generates
\* tokens and sets cookies only when a user has the given email,
\* verify_password is true of the given password and the stored digest, and
\* the user's email_verified is true; every other login answer is an error
\* that generates no token, sets no cookie and carries no token.
C4_Granted ==
    \E id \in DOMAIN users :
       /\ users[id].email = req'.body.email
       /\ verify_password(req'.body.password, users[id].password)
       /\ users[id].email_verified

C4_LoginIssuesOnlyAfterChecks ==
    [][/\ SessionIssues' # SessionIssues => Handled("login_user")
       /\ Handled("login_user") =>
            /\ resp'.status = 200 => C4_Granted
            /\ resp'.status # 200 \/ ~C4_Granted =>
                 /\ issued' = issued
                 /\ resp'.cookies = {}
                 /\ resp'.data = NoData
                 /\ resp'.status = 400]_vars

\* A login that went through: both cookies set, both tokens out.
C4_Witness ==
    /\ resp.op = "login_user" /\ resp.status = 200
    /\ {c.name : c \in resp.cookies} = {"auth_token", "refresh_token"}
    /\ {resp.data.auth_token, resp.data.refresh_token} \subseteq IssuedTokens

\* ------------------------------------------------------------------------ C5
\* C5: whatever has been done since it was issued (logout, change_password
\* and deletion of the account it names included), a session token is
\* accepted by the gate, as a cookie and as a Bearer header, under its
\* subject at every time up to its expires_at (and up to the 60 seconds
\* validate_token allows past it); a logout changes neither the users table
\* nor the tokens that are out nor the secret, and answers with the two
\* cookies cleared.
C5_StillAccepted ==
    \A e \in SessionIssues :
       now <= e.token.claims.exp + Leeway =>
          \A r \in {AsCookie(e.token), AsBearer(e.token)} :
             /\ auth_middleware(r, JWT_SECRET, now).pass
             /\ auth_middleware(r, JWT_SECRET, now).user_id = Subject(e.token)

C5_LogoutStep ==
    Handled("logout_user") =>
       /\ UNCHANGED <<users, posts, nextId, issued, JWT_SECRET>>
       /\ resp'.ran => resp'.status = 200 /\ resp'.cookies = ClearedCookies

C5_TokensNotRevocable == []C5_StillAccepted /\ [][C5_LogoutStep]_vars

\* The account is gone and its access token still opens the profile route.
C5_Witness ==
    /\ nextId >= 1 /\ DOMAIN users = {}
    /\ resp.op = "get_profile" /\ resp.ran /\ resp.validated
    /\ resp.token \in {e.token : e \in SessionIssues}
    /\ resp.user_id = 1

\* ------------------------------------------------------------------------ C6
\* C6: a request with no auth_token entry in its Cookie header and no
\* Authorization header that starts with "Bearer " is answered by the gate
\* with 401, error Unauthorized and the 'Authentication required' message;
\* the Token Service is not called and the handler is not run.
C6_MissingCredential ==
    /\ resp.op = "next"
    /\ \A i \in 1..Len(req.cookie.parts) : req.cookie.parts[i].name # "auth_token"
    /\ ~(req.authorization.present /\ req.authorization.scheme = "Bearer ")
    => /\ resp.status = 401
       /\ resp.error = "Unauthorized"
       /\ resp.message = MissingMessage
       /\ ~resp.validated
       /\ ~resp.ran

\* A live access token under the cookie name refresh_token and under the
\* scheme Basic: no credential for the gate.
C6_Witness ==
    /\ resp.op = "next" /\ resp.status = 401 /\ resp.message = MissingMessage
    /\ req.cookie.present /\ req.cookie.parts[1].name = "refresh_token"
    /\ req.authorization.present /\ req.authorization.scheme = "Basic "
    /\ Accepted(req.authorization.value, resp.at)

\* ------------------------------------------------------------------------ C7
\* C7: when the token the gate takes from the request fails (no token at
\* all, wrong signature, expired, subject no UUID) the answer is 401, error
\* Unauthorized, message 'Invalid or expired token', the same for every
\* cause, and the handler is not run, even when the request carries
\* another token, in the Authorization header, that would be accepted.
C7_UniformRejection ==
    /\ Gated /\ resp.validated /\ ~Accepted(resp.token, resp.at) =>
         /\ resp.token \in Carried(req)
         /\ resp.status = 401
         /\ resp.error = "Unauthorized"
         /\ resp.message = InvalidMessage
         /\ ~resp.ran
         /\ resp.cookies = {}
    /\ /\ resp.op = "next"
       /\ req.cookie.present /\ req.cookie.ascii
       /\ Len(req.cookie.parts) >= 1
       /\ req.cookie.parts[1].name = "auth_token"
       /\ ~Accepted(req.cookie.parts[1].value, resp.at)
       => /\ resp.status = 401
          /\ resp.message = InvalidMessage
          /\ ~resp.ran

\* An expired token in the cookie and a live one in the Bearer header.
C7_Witness ==
    /\ resp.op = "next" /\ resp.status = 401 /\ resp.message = InvalidMessage
    /\ validate_token(resp.token, JWT_SECRET, resp.at).err = "ExpiredSignature"
    /\ req.cookie.present /\ req.cookie.parts[1].value = resp.token
    /\ req.authorization.present /\ req.authorization.scheme = "Bearer "
    /\ Accepted(req.authorization.value, resp.at)

\* ------------------------------------------------------------------------ C8
\* C8 (as the code has it): when the first Cookie header is visible ASCII
\* and has an auth_token entry, the value of the first such entry is the
\* token that is validated and the answer is what it would be without the
\* Authorization header; the Bearer value is the token validated when the
\* Cookie header is missing, is not visible ASCII or has no auth_token entry.
C8_CookieBeforeHeader ==
    resp.op = "next" =>
       /\ req.cookie.present /\ req.cookie.ascii =>
            \A i \in 1..Len(req.cookie.parts) :
               /\ req.cookie.parts[i].name = "auth_token"
               /\ \A j \in 1..(i - 1) : req.cookie.parts[j].name # "auth_token"
               => /\ resp.validated
                  /\ resp.token = req.cookie.parts[i].value
                  /\ resp.ran = Accepted(req.cookie.parts[i].value, resp.at)
                  /\ resp.ran => resp.user_id = Subject(req.cookie.parts[i].value)
       /\ /\ \/ ~req.cookie.present
             \/ ~req.cookie.ascii
             \/ \A i \in 1..Len(req.cookie.parts) :
                   req.cookie.parts[i].name # "auth_token"
          /\ req.authorization.present /\ req.authorization.ascii
          /\ req.authorization.scheme = "Bearer "
          => /\ resp.validated
             /\ resp.token = req.authorization.value
             /\ resp.ran = Accepted(req.authorization.value, resp.at)

\* A readable cookie with a failing token wins over a live Bearer token.
C8_Witness ==
    /\ resp.op = "next" /\ resp.validated
    /\ req.cookie.present /\ req.cookie.ascii
    /\ req.cookie.parts[1].name = "auth_token"
    /\ resp.token = req.cookie.parts[1].value
    /\ req.authorization.present /\ req.authorization.scheme = "Bearer "
    /\ req.authorization.value # resp.token
    /\ Accepted(req.authorization.value, resp.at)
    /\ ~resp.ran

\* C8 as the specification has it: whenever the Cookie header contains an
\* auth_token entry, its value is the token validated, whatever the
\* Authorization header.
C8_AnyCookieHeader ==
    /\ resp.op = "next"
    /\ req.cookie.present
    /\ Len(req.cookie.parts) >= 1
    /\ req.cookie.parts[1].name = "auth_token"
    => /\ resp.validated
       /\ resp.token = req.cookie.parts[1].value

\* ------------------------------------------------------------------------ C9
\* C9: a login at time now answers with an access token whose iat is now
\* and whose exp is now + 24h and a refresh token whose iat is now and whose
\* exp is now + 7d, so that exp - iat is exactly 24h and 7d, both with the
\* same subject and role.
C9_ExactLifetimes ==
    resp.op = "login_user" /\ resp.status = 200 =>
       LET access == resp.data.auth_token.claims
           refresh == resp.data.refresh_token.claims
       IN /\ access.iat = resp.at
          /\ access.exp = resp.at + AccessTokenSecs
          /\ access.exp - access.iat = AccessTokenSecs
          /\ refresh.iat = resp.at
          /\ refresh.exp = resp.at + RefreshTokenSecs
          /\ refresh.exp - refresh.iat = RefreshTokenSecs
          /\ access.sub = refresh.sub
          /\ access.role = refresh.role

C11_SetOnce == JWT_SECRET # Uninitialized => JWT_SECRET' = JWT_SECRET
C11_OneSecret ==
    /\ issued # {} => JWT_SECRET # Uninitialized
    /\ \A tk \in IssuedTokens : tk.sig.key = JWT_SECRET
    /\ (resp.op = "next" /\ resp.validated /\ resp.token \in IssuedTokens
           /\ resp.at <= resp.token.claims.exp + Leeway) => resp.ran
C12_Rejects(token) ==
    LET v == validate_token(token, JWT_SECRET, now)
    IN ~v.ok /\ v.err = "InvalidSignature"
C12_OnlyCurrentSecretOverContents ==
    /\ (resp.op = "next" /\ resp.ran) =>
          resp.token.sig = HS256(JWT_SECRET, resp.token.claims)
    /\ \A tk \in IssuedTokens :
          /\ C12_Rejects(Resigned(tk, ForeignSecret))
          /\ C12_Rejects(Altered(tk))
          /\ C12_Rejects(Tampered(tk))
\* The gate has turned away, before its expiry, a token re-signed under
\* another secret, and one whose claims were altered.
C12_Witness ==
    /\ resp.op = "next" /\ resp.validated /\ ~resp.ran
    /\ resp.token \in {Resigned(tk, ForeignSecret) : tk \in AccessTokens}
                       \cup {Altered(tk) : tk \in AccessTokens}
    /\ resp.at <= resp.token.claims.exp

\* C13: for every identity and each of the two roles, both tokens that
\* generate_token returns give back that identity and that role through
\* extract_user_id_from_token and extract_user_role_from_token, when they
\* are made and at any time up to their expiry.
C13_GivesBack(token, t, id, role) ==
    /\ extract_user_id_from_token(token, JWT_SECRET, t) =
          [ok |-> TRUE, err |-> "", id |-> id]
    /\ extract_user_role_from_token(token, JWT_SECRET, t) =
          [ok |-> TRUE, err |-> "", role |-> role]
AdminOps == {"get_all_users_admin", "delete_user_admin"}
C14_EnteredAs(r, role) ==
    /\ r.op \in AdminOps /\ r.ran
    /\ "Role" \in DOMAIN r.extensions
    /\ r.extensions["Role"] = role
C14_Answer ==
    (resp.op \in AdminOps /\ resp.ran) =>
       \/ /\ C14_EnteredAs(resp, "USER")
          /\ resp.status = 400 /\ resp.error = "Forbidden"
          /\ resp.data = NoData
       \/ /\ C14_EnteredAs(resp, "ADMIN")
          /\ resp.error # "Forbidden"
C14_Step ==
    (Handled("get_all_users_admin") \/ Handled("delete_user_admin")) =>
       /\ users' # users => C14_EnteredAs(resp', "ADMIN")
       /\ C14_EnteredAs(resp', "USER") => users' = users
C14_AdminOnly == []C14_Answer /\ [][C14_Step]_vars
\* A USER asked to delete an account that an ADMIN could have deleted, and
\* was answered the role check's error.
C14_Witness ==
    /\ resp.op = "delete_user_admin"
    /\ C14_EnteredAs(resp, "USER")
    /\ resp.error = "Forbidden"
    /\ req.body.path.user \in DOMAIN users
    /\ req.body.path.user # resp.user_id
    /\ ~HasPosts(req.body.path.user)

\* C15: when the gate has validated a token and runs the handler, the
\* request extensions hold the token's role beside the identity.
C15_GateAttachesRole ==
    (resp.op = "next" /\ resp.ran) =>
       /\ "Uuid" \in DOMAIN resp.extensions
       /\ "Role" \in DOMAIN resp.extensions
       /\ resp.extensions["Role"] = resp.token.claims.role

\* C16: verify_password(p1, d) is true exactly when d is a digest of p1 and
\* of no other password: a login gets past the password check only with the
\* one password the stored digest was made of.
Passwords == {Strong1, Strong2, Weak, Long1, Long2}
C16_VerifiesOnlyTheHashedPassword ==
    (resp.op = "login_user" /\ resp.status = 200) =>
       \A id \in find_by_email(req.body.email), p2 \in Passwords, salt \in Salts :
          users[id].password = hash_password(p2, salt) => p2 = req.body.password

\* C17: a successful login sets exactly two cookies: auth_token with the
\* access token and max-age 24 h, refresh_token with the refresh token and
\* max-age 7 d, both HttpOnly, SameSite=Lax, path "/".  The max-age runs from
\* the moment the answer is sent and the token's exp from the first clock
\* read of generate_token: the cookie never lapses before its token's exp.
C17_Cookie(c, name, token, max_age) ==
    /\ c.name = name /\ c.value = token /\ c.max_age = max_age
    /\ c.http_only /\ c.same_site = "Lax" /\ c.path = "/"
C17_LoginSetsCookies ==
    (resp.op = "login_user" /\ resp.status = 200) =>
       /\ Cardinality(resp.cookies) = 2
       /\ \E c \in resp.cookies :
             C17_Cookie(c, "auth_token", resp.data.auth_token, AccessTokenSecs)
       /\ \E c \in resp.cookies :
             C17_Cookie(c, "refresh_token", resp.data.refresh_token, RefreshTokenSecs)
C17_NotBeforeToken ==
    (Handled("login_user") /\ resp'.status = 200) =>
       \A c \in resp'.cookies : now' + c.max_age >= c.value.claims.exp
C17_LoginCookies == []C17_LoginSetsCookies /\ [][C17_NotBeforeToken]_vars
\* A login whose clock moved on while the tokens were made.
C17_Witness ==
    /\ resp.op = "login_user" /\ resp.status = 200
    /\ \E c \in resp.cookies :
          /\ C17_Cookie(c, "auth_token", resp.data.auth_token, AccessTokenSecs)
          /\ c.value.claims.iat > resp.at
\* C17 as stated: the cookie is gone no later than the token's exp.
C17_CookieNeverOutlivesToken ==
    [][(Handled("login_user") /\ resp'.status = 200) =>
          \A c \in resp'.cookies : now' + c.max_age <= c.value.claims.exp]_vars

\* C18: a lookup of what is not stored is answered 404, unless the
\* database failed: get_post, update_post and delete_post for a post id
\* that is not in the posts table, get_profile for a user id that is not in
\* the users table.
C18_Missing ==
    \/ /\ resp'.op \in {"get_post", "update_post", "delete_post"}
       /\ req'.body.path.post \notin DOMAIN posts
    \/ /\ resp'.op \in {"get_profile", "update_profile"}
       /\ resp'.user_id \notin DOMAIN users
C18_MissingAnswers404 ==
    [][(/\ <<req', resp'>> # <<req, resp>>
        /\ resp'.ran
        /\ C18_Missing
        /\ resp'.error # "Database Error") => resp'.status = 404]_vars

\* C19: update_post and delete_post, run for a caller who is not the
\* author of the stored post, answer 403.
C19_NotTheAuthor ==
    /\ resp'.op \in {"update_post", "delete_post"}
    /\ resp'.ran
    /\ req'.body.path.post \in DOMAIN posts
    /\ posts[req'.body.path.post].author_id # resp'.user_id
C19_NonAuthorAnswers403 ==
    [][(<<req', resp'>> # <<req, resp>> /\ C19_NotTheAuthor) => resp'.status = 403]_vars

\* C20: every user an answer carries is a UserResponse: it has the id, the
\* email, the role and the verification flag of the row, and no password
\* field, whatever was done before.
C20_NoDigestOutward ==
    \A u \in resp.data.users :
       /\ DOMAIN u = {"id", "email", "role", "email_verified"}
       /\ "password" \notin DOMAIN u
\* An administrator has been sent the list of all users, each with a stored
\* digest in its row.
C20_Witness ==
    /\ resp.op = "get_all_users_admin"
    /\ resp.status = 200
    /\ {u.id : u \in resp.data.users} = DOMAIN users
    /\ Cardinality(DOMAIN users) = 2

\* ----------------------------------------------------------------------- C21
\* C21: whether the gate lets a request through, and under which identity,
\* is a function of the token the request carries, the time and the signing
\* secret alone: whatever registrations, logins, profile updates and
\* deletions came before, the handler runs exactly if the token taken from
\* the request is one the Token Service accepts at that time, and then under
\* the token's subject; a request the gate turns away leaves the users
\* table, the posts and the tokens that are out as they were.
C21_Decision ==
    Gated =>
       LET opt == token_opt(req)
       IN /\ resp.ran = (opt.some /\ Accepted(opt.val, resp.at))
          /\ resp.ran => resp.user_id = Subject(opt.val)
          /\ resp.validated = opt.some
C21_TurnedAway ==
    (<<req', resp'>> # <<req, resp>> /\ resp'.op # "none" /\ ~resp'.ran
        /\ resp'.status = 401 /\ resp'.error = "Unauthorized")
       => UNCHANGED <<users, posts, nextId, issued, JWT_SECRET>>
C21_GateIsFunctionOfTokenTimeSecret ==
    []C21_Decision /\ [][C21_TurnedAway]_vars
\* The gate has let a request through under an account whose address the
\* users table holds as not verified, after the table had changed.
C21_Witness ==
    /\ Gated /\ resp.ran /\ resp.op = "get_profile"
    /\ resp.user_id \in DOMAIN users
    /\ ~users[resp.user_id].email_verified
    /\ \E e \in issued : e.op = "email" /\ e.token = resp.token

\* ----------------------------------------------------------------------- C22
\* C22: a post is changed or removed only by update_post or delete_post of
\* a request the gate let through under the post's author, and only the
\* post the path names; such a request of anyone else does not succeed and
\* leaves the posts as they were; no step changes the author of a post.
C22_Touched == {id \in DOMAIN posts : id \notin DOMAIN posts' \/ posts'[id] # posts[id]}
C22_OnlyTheAuthor ==
    \A id \in C22_Touched :
       /\ Handled("update_post") \/ Handled("delete_post")
       /\ resp'.ran /\ Gated'
       /\ req'.body.path = PostPath(id)
       /\ posts[id].author_id = resp'.user_id
C22_OthersFail ==
    \A id \in DOMAIN posts :
       ((Handled("update_post") \/ Handled("delete_post"))
          /\ req'.body.path = PostPath(id)
          /\ (~resp'.ran \/ resp'.user_id # posts[id].author_id))
         => resp'.status # 200 /\ posts' = posts
C22_AuthorKept ==
    \A id \in DOMAIN posts \cap DOMAIN posts' :
       posts'[id].author_id = posts[id].author_id
C22_OwnershipFrame ==
    [][C22_OnlyTheAuthor /\ C22_OthersFail /\ C22_AuthorKept]_vars
\* The author has changed the post, it kept its author, and the request
\* came with the author's token while another account is in the table.
C22_Witness ==
    /\ resp.op = "update_post" /\ resp.ran
    /\ "post-1" \in DOMAIN posts
    /\ posts["post-1"].title = 6
    /\ posts["post-1"].author_id = resp.user_id
    /\ DOMAIN users \ {resp.user_id} # {}

\* ----------------------------------------------------------------------- C23
\* C23: whatever the method and the path, a request enters get_profile,
\* update_profile, logout_user, create_post, get_user_posts, update_post or
\* delete_post only after auth_middleware accepted its token; and
\* register_user, login_user, get_all_posts and get_post are entered
\* without auth_middleware having been called, whatever token the request
\* carries.
ProtectedHandlers ==
    {"get_profile", "update_profile", "logout_user", "create_post",
     "get_user_posts", "update_post", "delete_post"}
PublicHandlers == {"register_user", "login_user", "get_all_posts", "get_post"}
C23_Dispatched == route(req.method, req.uri)
C23_Entered ==
    /\ C23_Dispatched \notin {"handler_404", "method_not_allowed"}
    /\ C23_Dispatched \in {"get_post", "update_post", "delete_post"}
          => Path_Uuid(req.uri)
C24_Id == resp'.user_id
C24_ReplacesOnlyIf ==
    \A id \in DOMAIN users \cap DOMAIN users' :
       users'[id].password # users[id].password =>
          /\ Handled("change_password") /\ resp'.ran /\ resp'.status = 200
          /\ id = C24_Id
          /\ strong_password(req'.body.new_password)
          /\ req'.body.new_password # req'.body.password
          /\ verify_password(req'.body.password, users[id].password)
C24_FailureKeepsDigest ==
    (Handled("change_password") /\ resp'.status # 200) => users' = users
C24_NewVerifies ==
    (Handled("change_password") /\ resp'.status = 200) =>
       /\ C24_Id \in DOMAIN users'
       /\ verify_password(req'.body.new_password, users'[C24_Id].password)
C24_OldFails ==
    (Handled("change_password") /\ resp'.status = 200) =>
       ~verify_password(req'.body.password, users'[C24_Id].password)
C24_ChangePassword ==
    [][C24_ReplacesOnlyIf /\ C24_FailureKeepsDigest /\ C24_NewVerifies
         /\ C24_OldFails]_vars
\* The part of C24 that the code keeps: the conditions of the replacement,
\* the frame of the failures, and that the new password verifies.
C24_ReplacementAndFrame ==
    [][C24_ReplacesOnlyIf /\ C24_FailureKeepsDigest /\ C24_NewVerifies]_vars

\* ----------------------------------------------------------------------- C25
\* C25 as stated: an update_profile whose email is the one the account
\* already has, or that gives no email, leaves email_verified as it was and
\* sends no verification mail.
C25_SameOrNoEmail ==
    /\ Handled("update_profile") /\ resp'.ran
    /\ resp'.user_id \in DOMAIN users
    /\ req'.body.email \in {"", users[resp'.user_id].email}
C25_ReverifiesOnlyOnChange ==
    [][C25_SameOrNoEmail =>
          /\ users'[resp'.user_id].email_verified = users[resp'.user_id].email_verified
          /\ EmailIssues' = EmailIssues]_vars
\* The part of C25 that the code keeps: an update_profile that gives no
\* email leaves the account's row and the mails as they were.
C25_NoEmailNoChange ==
    [][(C25_SameOrNoEmail /\ req'.body.email = "")
          => users' = users /\ issued' = issued]_vars

\* ----------------------------------------------------------------------- C26
\* C26 as stated: verify_email with a token that is valid for U sets U's
\* email_verified and answers with success when U is stored and not yet
\* verified, unless the database fails; when U is not stored or is already
\* verified it answers "Verification Failed", so that verifying a second
\* time is not a success.
C26_ValidFor ==
    LET id == extract_user_id_from_token(req'.body.token, JWT_SECRET, resp'.at)
    IN IF Handled("verify_email") /\ id.ok THEN {id.id} ELSE {}
C26_First ==
    \A U \in C26_ValidFor :
       (U \in DOMAIN users /\ ~users[U].email_verified) =>
          \/ resp'.status = 200 /\ resp'.message = "Email Verified"
                 /\ users'[U].email_verified
          \/ resp'.error = "Database Error" /\ users' = users
C26_Second ==
    \A U \in C26_ValidFor :
       (U \notin DOMAIN users \/ users[U].email_verified) =>
          /\ resp'.status # 200
          /\ resp'.error \in {"Verification Failed", "Database Error"}
          /\ users' = users
C26_VerifyOnce == [][C26_First /\ C26_Second]_vars
\* The part of C26 that the code keeps: the first verification, and the
\* answer for a user that is not stored.
C26_Missing ==
    \A U \in C26_ValidFor :
       U \notin DOMAIN users =>
          /\ resp'.status # 200
          /\ resp'.error \in {"Verification Failed", "Database Error"}
          /\ users' = users
C26_FirstAndMissing == [][C26_First /\ C26_Missing]_vars

\* ----------------------------------------------------------------------- C27
\* C27: no two stored users have the same email, also when two
\* register_user requests for one email have both passed find_by_email
\* before either reaches create_user, and when update_profile gives an
\* email another row has; create_user succeeds exactly if no row has the
\* email when its INSERT runs, so that of two requests that stand before
\* create_user with the same email, the INSERT of one leaves the other to
\* fail.
C27_Unique ==
    \A a \in DOMAIN users, b \in DOMAIN users :
       users[a].email = users[b].email => a = b
C27_AtMostOneSucceeds ==
    \A c \in Connections :
       (req[c].at = "create_user" /\ req'[c].at = "idle") =>
          LET others == find_by_email(req[c].body.email)
          IN /\ resp'[c].status = 200 <=> others = {}
             /\ resp'[c].status # 200 => users' = users
             /\ \A d \in Connections \ {c} :
                   (resp'[c].status = 200 /\ req[d].at = "create_user"
                       /\ req[d].body.email = req[c].body.email)
                     => (~unique_email(req[d].body.email, NewId(d)))'
C27_EmailsUnique == []C27_Unique /\ [][C27_AtMostOneSucceeds]_vars
\* Two register_user requests for one email both passed find_by_email, one
\* was stored, and the other was answered with the failure of its INSERT.
C27_Witness ==
    \E c \in Connections, d \in Connections :
       /\ c # d
       /\ resp[c].op = "register_user" /\ resp[c].status = 200
       /\ resp[d].op = "register_user" /\ resp[d].message = "Error creating user"
       /\ req[c].body.email = req[d].body.email
       /\ NewId(c) \in DOMAIN users /\ NewId(d) \notin DOMAIN users

\* ----------------------------------------------------------------------- C28
\* C28: an update_profile that gives an email leaves the account not
\* verified, as register_user leaves a new one; no login of an account that
\* is not verified succeeds or issues a token, and one with the right
\* password is answered "Email verification required" unless the database
\* or the hasher fails; an account goes from not verified to verified only
\* in a verify_email step that succeeds with a token valid for it.
C28_Required ==
    "Email verification required. Please verify your email before logging in."
C28_Reset ==
    /\ (Handled("update_profile") /\ resp'.status = 200 /\ req'.body.email # ""
           /\ resp'.user_id \in DOMAIN users')
          => ~users'[resp'.user_id].email_verified
    /\ (Handled("register_user") /\ resp'.status = 200)
          => \A id \in DOMAIN users' \ DOMAIN users : ~users'[id].email_verified
C28_NoLogin ==
    \A id \in DOMAIN users :
       (Handled("login_user") /\ users[id].email = req'.body.email
          /\ ~users[id].email_verified)
         => /\ resp'.status # 200
            /\ issued' = issued
            /\ verify_password(req'.body.password, users[id].password)
                  => resp'.message \in {C28_Required, "Unable to verify credentials",
                                        "Unable to verify email status"}
C28_OnlyVerifyEmail ==
    \A id \in DOMAIN users \cap DOMAIN users' :
       (~users[id].email_verified /\ users'[id].email_verified)
         => /\ Handled("verify_email") /\ resp'.status = 200
            /\ Accepted(req'.body.token, resp'.at)
            /\ Subject(req'.body.token) = id
C29_RefreshTokens == {e.token : e \in {i \in issued : i.op = "refresh"}}
C29_RefreshTokenIsSessionCredential ==
    /\ \A e \in issued :
          e.op = "refresh" => e.token.claims.exp = e.token.claims.iat + RefreshTokenSecs
    /\ (resp.op = "next" /\ token_opt(req).some
           /\ token_opt(req).val \in C29_RefreshTokens
           /\ resp.at <= token_opt(req).val.claims.exp)
          => /\ resp.ran /\ resp.status = 200
             /\ resp.user_id = Subject(token_opt(req).val)
\* The refresh token, sent as Bearer, has passed the gate after the access
\* token of the same login was no longer accepted.
C29_Witness ==
    /\ resp.op = "next" /\ resp.ran
    /\ req.authorization.present /\ ~req.cookie.present
    /\ resp.token \in C29_RefreshTokens
    /\ \E tk \in AccessTokens :
          /\ tk.claims.sub = resp.token.claims.sub
          /\ resp.at > tk.claims.exp + Leeway
          /\ ~Accepted(tk, resp.at)

\* ----------------------------------------------------------------------- C30
\* C30: register_user stores every new account with role USER and not
\* verified; no step of register_user, verify_email, login_user,
\* update_profile, change_password or delete_user_account changes the role
\* of a stored account; and a token with role ADMIN is issued only for an
\* account whose stored role is ADMIN.
C30_RegisterCreatesUser ==
    \A id \in DOMAIN users' \ DOMAIN users :
       /\ Handled("register_user") /\ resp'.status = 200
       /\ users'[id].role = "USER" /\ ~users'[id].email_verified
C30_RoleKept ==
    \A id \in DOMAIN users \cap DOMAIN users' : users'[id].role = users[id].role
C30_AdminTokenOnlyForAdmin ==
    \A e \in issued' \ issued :
       e.token.claims.role = "ADMIN" =>
          /\ Subject(e.token) \in DOMAIN users
          /\ users[Subject(e.token)].role = "ADMIN"
C30_NoPrivilegeEscalation ==
    [][C30_RegisterCreatesUser /\ C30_RoleKept /\ C30_AdminTokenOnlyForAdmin]_vars
\* An account has been registered while an administrator is stored: the
\* new row is a USER, the administrator's role is as it was, and the
\* tokens that are out for the new account carry USER.
C30_Witness ==
    /\ resp.op = "register_user" /\ resp.status = 200
    /\ Admin \in DOMAIN users /\ users[Admin].role = "ADMIN"
    /\ \E id \in DOMAIN users \ {Admin, Member} :
          /\ users[id].role = "USER" /\ ~users[id].email_verified
          /\ \E e \in issued : Subject(e.token) = id /\ e.token.claims.role = "USER"

====
